---- MODULE Spec2Model ----
(***************************************************************************)
(* Model of src/self_reward_train_cli.py: the body of the                  *)
(* `if __name__ == "__main__":` block, one action per statement group.     *)
(* Every call into a dispatcher, the tokenizer, the datasets library or    *)
(* the model either returns or raises; a raise that is not caught ends the *)
(* run (pc = "failed").                                                    *)
(***************************************************************************)
EXTENDS Integers, Sequences, FiniteSets, TLC

\* Largest number of rows of a train dataset returned by a dispatcher.
MaxData == 2

\* Largest number of rows of a validation dataset returned by a dispatcher.
MaxValData == 1

\* Python's None, and the objects the script handles, are records tagged by kind.
None == [kind |-> "None"]

PromptTuningConfig == "PromptTuningConfig"
LoraConfig == "LoraConfig"

\* The PEFT recipes: a recipe names the class of the config it builds.
PeftRecipes ==
    { [kind |-> "PeftRecipe", peft_config_obj |-> c] : c \in {PromptTuningConfig, LoraConfig} }

QuantizationRecipes == { [kind |-> "QuantizationRecipe"] }

\* validation_split_size and training_size: None or a row count.
IntOpt(n) == [kind |-> "int", n |-> n]
SplitSizes == {None} \cup { IntOpt(n) : n \in 0..MaxData }
TrainingSizes == {None} \cup { IntOpt(n) : n \in 0..MaxData }

\* The configurations get_config_from_argparser can return.
Configs ==
    [ kind : {"ConfigTrain"},
      verbose : BOOLEAN,
      peft_recipe : {None} \cup PeftRecipes,
      prompt_tuning_most_common_init : BOOLEAN,
      quantization_recipe : {None} \cup QuantizationRecipes,
      validation_split_size : SplitSizes,
      training_size : TrainingSizes,
      dynamic_examples : BOOLEAN,
      system_tuning : BOOLEAN ]

VARIABLES
    pc,                 \* the statement the run is at
    config,             \* config (line 23)
    level,              \* the logger's level (lines 25-26)
    peft_config,        \* line 63
    tokenizer,          \* line 80
    quantization_config,\* line 85
    model,              \* lines 87, 154
    dataset_support,    \* line 107
    dataset_train,      \* lines 66, 107, 131, 133
    dataset_val,        \* lines 116, 131
    outputs,            \* line 159
    idx,                \* position of the for loop of line 170
    printed,            \* what print has written (line 172)
    calls,              \* the calls made so far, in order, each with its outcome
    log,                \* the records the logger has emitted
    touched,            \* the reads of peft_recipe.peft_config_obj
    error               \* the exception that ended the run

vars == << pc, config, level, peft_config, tokenizer, quantization_config, model,
           dataset_support, dataset_train, dataset_val, outputs, idx, printed,
           calls, log, touched, error >>

Unbound == [kind |-> "unbound"]

Init ==
    /\ pc = "L23"
    /\ config = Unbound
    /\ level = "WARNING"
    /\ peft_config = Unbound
    /\ tokenizer = Unbound
    /\ quantization_config = Unbound
    /\ model = Unbound
    /\ dataset_support = Unbound
    /\ dataset_train = Unbound
    /\ dataset_val = Unbound
    /\ outputs = << >>
    /\ idx = 0
    /\ printed = << >>
    /\ calls = << >>
    /\ log = << >>
    /\ touched = {}
    /\ error = None

(***************************************************************************)
(* Helpers                                                                 *)
(***************************************************************************)
Call(fn, args, ok) == [fn |-> fn, args |-> args, ok |-> ok]

Exception(type, at) == [kind |-> "Exception", type |-> type, at |-> at]

\* logger.setLevel / logger.debug / logger.info / logger.warning
Rank(l) == CASE l = "DEBUG" -> 1 [] l = "INFO" -> 2 [] OTHER -> 3

Emit(lg, lvl, msg) ==
    IF Rank(lvl) >= Rank(level) THEN Append(lg, [level |-> lvl, msg |-> msg]) ELSE lg

\* A dataset is its rows, in order; a row is known by its split and position.
Rows(split, n) == [i \in 1..n |-> [split |-> split, i |-> i]]

Dataset(rows) == [kind |-> "Dataset", rows |-> rows]

\* An uncaught exception ends the run: nothing else changes.
Fail(exc) ==
    /\ pc' = "failed"
    /\ error' = exc

\* The order with the model built before the tokenizer and the quantization config.
SuccModelFirst(l) ==
    CASE l = "L23"  -> "L63"
      [] l = "L63"  -> "L65"
      [] l = "L65"  -> "L87"
      [] l = "L87"  -> "L80"
      [] l = "L80"  -> "L85"
      [] l = "L85"  -> "L107"
      [] l = "L107" -> "L116"
      [] l = "L116" -> "L133"
      [] l = "L126" -> "L133"
      [] l = "L133" -> "L136"
      [] l = "L136" -> "L152"
      [] l = "L152" -> "L159"
      [] l = "L159" -> "L170"
      [] OTHER      -> "done"

\* The statement that follows statement l when l completes normally (the
\* except block of line 124 is entered from line 116 only by an exception).
Succ(l) ==
    CASE l = "L23"  -> "L63"
      [] l = "L63"  -> "L65"
      [] l = "L65"  -> "L80"
      [] l = "L80"  -> "L85"
      [] l = "L85"  -> "L87"
      [] l = "L87"  -> "L107"
      [] l = "L107" -> "L116"
      [] l = "L116" -> "L133"
      [] l = "L126" -> "L133"
      [] l = "L133" -> "L136"
      [] l = "L136" -> "L152"
      [] l = "L152" -> "L159"
      [] l = "L159" -> "L170"
      [] OTHER      -> "done"

\* Python truthiness of an optional int (`if config.training_size:`).
Truthy(x) == x # None /\ x.n # 0

(***************************************************************************)
(* Lines 23-53: parse the command line, set the logger, read the names.    *)
(***************************************************************************)
LoggerLevel(verbose) == IF verbose THEN "DEBUG" ELSE "INFO"

ParseConfig ==
    /\ pc = "L23"
    /\ \/ \E c \in Configs :
            /\ config' = c
            /\ level' = LoggerLevel(c.verbose)
            /\ calls' = Append(calls, Call("get_config_from_argparser", [cls |-> "ConfigTrain"], TRUE))
            /\ log' = IF c.verbose
                      THEN log \o << [level |-> "DEBUG", msg |-> "Training Arguments used"],
                                     [level |-> "DEBUG", msg |-> "Model name"],
                                     [level |-> "DEBUG", msg |-> "Output path"] >>
                      ELSE log
            /\ pc' = Succ("L23")
            /\ UNCHANGED error
       \/ /\ calls' = Append(calls, Call("get_config_from_argparser", [cls |-> "ConfigTrain"], FALSE))
          /\ Fail(Exception("SystemExit", "L23"))
          /\ UNCHANGED << config, level, log >>
    /\ UNCHANGED << peft_config, tokenizer, quantization_config, model, dataset_support,
                    dataset_train, dataset_val, outputs, idx, printed, touched >>

(***************************************************************************)
(* Lines 62-63: the PEFT config, when a recipe is given.                    *)
(***************************************************************************)
\* PeftDispatcher(recipe).get_peft_config(): the config object of the recipe.
GetPeftConfig(recipe) ==
    [kind |-> "PeftConfig", cls |-> recipe.peft_config_obj, prompt_tuning_init_text |-> "default"]

\* `X if recipe is not None else None`: whether the dispatcher is built and called.
Dispatches(recipe) == recipe # None

PeftConfigStep ==
    /\ pc = "L63"
    /\ IF Dispatches(config.peft_recipe)
       THEN \/ /\ peft_config' = GetPeftConfig(config.peft_recipe)
               /\ calls' = Append(calls, Call("PeftDispatcher.get_peft_config",
                                              [recipe |-> config.peft_recipe], TRUE))
               /\ pc' = Succ("L63")
               /\ UNCHANGED error
            \/ /\ calls' = Append(calls, Call("PeftDispatcher.get_peft_config",
                                              [recipe |-> config.peft_recipe], FALSE))
               /\ Fail(Exception("Exception", "L63"))
               /\ UNCHANGED peft_config
       ELSE /\ peft_config' = None
            /\ pc' = Succ("L63")
            /\ UNCHANGED << calls, error >>
    /\ UNCHANGED << config, level, tokenizer, quantization_config, model, dataset_support,
                    dataset_train, dataset_val, outputs, idx, printed, log, touched >>

(***************************************************************************)
(* Lines 65-72: prompt-tuning initial text from the most common words.     *)
(***************************************************************************)
\* `peft_recipe is not None and peft_recipe.peft_config_obj == PromptTuningConfig and flag`,
\* evaluated left to right: what it yields, whether it read peft_config_obj, and
\* whether that read was on None (an AttributeError).
MostCommonInitGuard(cfg) ==
    IF cfg.peft_recipe = None
    THEN [value |-> FALSE, read |-> FALSE, raised |-> FALSE]
    ELSE [value |-> (cfg.peft_recipe.peft_config_obj = PromptTuningConfig
                     /\ cfg.prompt_tuning_most_common_init),
          read |-> TRUE, raised |-> FALSE]

Touch(at, g) == IF g.read THEN touched \cup {[at |-> at, on_none |-> g.raised]} ELSE touched

MostCommonInit ==
    /\ pc = "L65"
    /\ LET g == MostCommonInitGuard(config)
           args == [split |-> "train", eos_token |-> "", include_labels_inside_text |-> FALSE]
       IN  /\ touched' = Touch("L65", g)
           /\ IF g.raised
              THEN /\ Fail(Exception("AttributeError", "L65"))
                   /\ UNCHANGED << dataset_train, peft_config, calls, log >>
              ELSE IF g.value
              THEN \/ \E n \in 0..MaxData :
                        /\ dataset_train' = Dataset(Rows("train_text", n))
                        /\ peft_config' = [peft_config EXCEPT !.prompt_tuning_init_text = "most_common_words"]
                        /\ calls' = calls \o << Call("DatasetDispatcher.get_tuning_dataset", args, TRUE),
                                                Call("most_common_words", [of |-> "train_text"], TRUE) >>
                        /\ log' = Emit(log, "DEBUG", "Prompt tuning init text set")
                        /\ pc' = Succ("L65")
                        /\ UNCHANGED error
                   \/ /\ calls' = Append(calls, Call("DatasetDispatcher.get_tuning_dataset", args, FALSE))
                      /\ Fail(Exception("Exception", "L66"))
                      /\ UNCHANGED << dataset_train, peft_config, log >>
              ELSE /\ pc' = Succ("L65")
                   /\ UNCHANGED << dataset_train, peft_config, calls, log, error >>
    /\ UNCHANGED << config, level, tokenizer, quantization_config, model, dataset_support,
                    dataset_val, outputs, idx, printed >>

(***************************************************************************)
(* Lines 79-87: tokenizer, quantization config, model.                     *)
(***************************************************************************)
GetTokenizer == [kind |-> "Tokenizer", eos_token |-> "</s>"]

TokenizerStep ==
    /\ pc = "L80"
    /\ \/ /\ tokenizer' = GetTokenizer
          /\ calls' = Append(calls, Call("TokenizerDispatcher.get_tokenizer", [model_name |-> "model_name"], TRUE))
          /\ pc' = Succ("L80")
          /\ UNCHANGED error
       \/ /\ calls' = Append(calls, Call("TokenizerDispatcher.get_tokenizer", [model_name |-> "model_name"], FALSE))
          /\ Fail(Exception("Exception", "L80"))
          /\ UNCHANGED tokenizer
    /\ UNCHANGED << config, level, peft_config, quantization_config, model, dataset_support,
                    dataset_train, dataset_val, outputs, idx, printed, log, touched >>

GetQuantizationConfig(recipe) == [kind |-> "QuantizationConfig"]

QuantizationStep ==
    /\ pc = "L85"
    /\ IF Dispatches(config.quantization_recipe)
       THEN \/ /\ quantization_config' = GetQuantizationConfig(config.quantization_recipe)
               /\ calls' = Append(calls, Call("QuantizationDispatcher.get_quantization_config",
                                              [recipe |-> config.quantization_recipe], TRUE))
               /\ pc' = Succ("L85")
               /\ UNCHANGED error
            \/ /\ calls' = Append(calls, Call("QuantizationDispatcher.get_quantization_config",
                                              [recipe |-> config.quantization_recipe], FALSE))
               /\ Fail(Exception("Exception", "L85"))
               /\ UNCHANGED quantization_config
       ELSE /\ quantization_config' = None
            /\ pc' = Succ("L85")
            /\ UNCHANGED << calls, error >>
    /\ UNCHANGED << config, level, peft_config, tokenizer, model, dataset_support,
                    dataset_train, dataset_val, outputs, idx, printed, log, touched >>

\* get_model called without the quantization config.
GetModelArgsNoQuantization(q, p) ==
    [model_name |-> "model_name", quantization_config |-> None, peft_config |-> p]

\* The arguments of ModelDispatcher(model_recipe).get_model(...), line 87.
GetModelArgs(q, p) ==
    [model_name |-> "model_name", quantization_config |-> q, peft_config |-> p]

\* The model get_model returns for these arguments.
GetModel(args) ==
    [kind |-> "Model", quantization_config |-> args.quantization_config,
     peft_config |-> args.peft_config, proxy |-> FALSE, system_template |-> None]

ModelStep ==
    /\ pc = "L87"
    /\ LET args == GetModelArgs(quantization_config, peft_config)
       IN  \/ /\ model' = GetModel(args)
              /\ calls' = Append(calls, Call("ModelDispatcher.get_model", args, TRUE))
              /\ pc' = Succ("L87")
              /\ UNCHANGED error
           \/ /\ calls' = Append(calls, Call("ModelDispatcher.get_model", args, FALSE))
              /\ Fail(Exception("Exception", "L87"))
              /\ UNCHANGED model
    /\ UNCHANGED << config, level, peft_config, tokenizer, quantization_config, dataset_support,
                    dataset_train, dataset_val, outputs, idx, printed, log, touched >>

(***************************************************************************)
(* Lines 104-114: the support and train datasets.                          *)
(***************************************************************************)
TrainCallArgs(cfg, tok) ==
    [split |-> "train", num_examples |-> "config.num_examples", dataset_support |-> None,
     postprocess_function |-> "model_template_recipe.postprocess_function",
     eos_token |-> tok.eos_token, include_labels_inside_text |-> TRUE,
     num_proc |-> "config.num_proc", dynamic_examples |-> cfg.dynamic_examples]

SupportDataset == [kind |-> "Dataset", rows |-> Rows("support", 1)]

TrainDatasetStep ==
    /\ pc = "L107"
    /\ LET args == TrainCallArgs(config, tokenizer)
       IN  \/ \E n \in 0..MaxData :
                /\ dataset_support' = SupportDataset
                /\ dataset_train' = Dataset(Rows("train", n))
                /\ calls' = Append(calls, Call("DatasetDispatcher.get_support_and_tuning_dataset", args, TRUE))
                /\ pc' = Succ("L107")
                /\ UNCHANGED error
           \/ /\ calls' = Append(calls, Call("DatasetDispatcher.get_support_and_tuning_dataset", args, FALSE))
              /\ Fail(Exception("Exception", "L107"))
              /\ UNCHANGED << dataset_support, dataset_train >>
    /\ UNCHANGED << config, level, peft_config, tokenizer, quantization_config, model,
                    dataset_val, outputs, idx, printed, log, touched >>

(***************************************************************************)
(* Lines 115-123: the validation dataset, inside `try`.                    *)
(***************************************************************************)
\* The validation call without dataset_support.
ValidationCallArgsNoSupport(cfg, tok, support) ==
    [split |-> "validation", num_examples |-> "default", dataset_support |-> None,
     postprocess_function |-> "model_template_recipe.postprocess_function",
     eos_token |-> tok.eos_token, include_labels_inside_text |-> TRUE,
     num_proc |-> "config.num_proc", dynamic_examples |-> cfg.dynamic_examples]

ValidationCallArgs(cfg, tok, support) ==
    [split |-> "validation", num_examples |-> "default", dataset_support |-> support,
     postprocess_function |-> "model_template_recipe.postprocess_function",
     eos_token |-> tok.eos_token, include_labels_inside_text |-> TRUE,
     num_proc |-> "config.num_proc", dynamic_examples |-> cfg.dynamic_examples]

\* Where the run goes when the call of line 116 raises: the bare `except:` of
\* line 124 catches every exception.
OnValidationRaise == "L126"

ValidationDatasetStep ==
    /\ pc = "L116"
    /\ LET args == ValidationCallArgs(config, tokenizer, dataset_support)
       IN  \/ \E n \in 0..MaxValData :
                /\ dataset_val' = Dataset(Rows("validation", n))
                /\ calls' = Append(calls, Call("DatasetDispatcher.get_support_and_tuning_dataset", args, TRUE))
                /\ pc' = Succ("L116")
                /\ UNCHANGED error
           \/ /\ calls' = Append(calls, Call("DatasetDispatcher.get_support_and_tuning_dataset", args, FALSE))
              /\ pc' = OnValidationRaise
              /\ error' = IF OnValidationRaise = "failed" THEN Exception("Exception", "L116") ELSE error
              /\ UNCHANGED dataset_val
    /\ UNCHANGED << config, level, peft_config, tokenizer, quantization_config, model,
                    dataset_support, dataset_train, outputs, idx, printed, log, touched >>

(***************************************************************************)
(* Lines 124-131: the except block: split the train dataset.               *)
(***************************************************************************)
\* The except block without its assertion.
AssertSplitSizeSkipped(cfg) == TRUE

\* assert config.validation_split_size is not None
AssertSplitSize(cfg) == cfg.validation_split_size # None

\* logger.warning of line 128, under `if config.dynamic_examples:`
WarnsLeakage(cfg) == cfg.dynamic_examples

\* The rows train_test_split puts in the test part of an n-row dataset:
\* test_size, or a quarter of the rows (rounded up) when test_size is None.
TestCount(n, size) == IF size = None THEN (n + 3) \div 4 ELSE size.n

\* Dataset.train_test_split(test_size=k) of an n-row dataset raises ValueError
\* unless 0 < k < n.
SplitRaises(n, k) == k <= 0 \/ k >= n

RECURSIVE Perms(_)
\* Every order of the positions in S (the shuffle of train_test_split).
Perms(S) ==
    IF S = {} THEN { << >> }
    ELSE UNION { { << x >> \o p : p \in Perms(S \ {x}) } : x \in S }

\* A split whose train part keeps every row (dataset_train not replaced).
TrainTestSplitKeepsAll(rows, k, p) ==
    [train |-> Dataset(rows),
     test  |-> Dataset([i \in 1..k |-> rows[p[i]]])]

\* The split of rows under permutation p: the first k positions are the test
\* part, the others the train part.
TrainTestSplit(rows, k, p) ==
    [train |-> Dataset([i \in 1..(Len(rows) - k) |-> rows[p[k + i]]]),
     test  |-> Dataset([i \in 1..k |-> rows[p[i]]])]

FallbackSplitStep ==
    /\ pc = "L126"
    /\ IF ~AssertSplitSize(config)
       THEN /\ Fail(Exception("AssertionError", "L126"))
            /\ UNCHANGED << dataset_train, dataset_val, calls, log >>
       ELSE LET n == Len(dataset_train.rows)
                k == TestCount(n, config.validation_split_size)
                lg1 == Emit(log, "INFO", "Validation dataset not found, splitting train")
                lg2 == IF WarnsLeakage(config)
                       THEN Emit(lg1, "WARNING", "dynamic examples: data leakage")
                       ELSE lg1
                args == [test_size |-> config.validation_split_size, on |-> dataset_train]
            IN  /\ log' = lg2
                /\ IF SplitRaises(n, k)
                   THEN /\ calls' = Append(calls, Call("Dataset.train_test_split", args, FALSE))
                        /\ Fail(Exception("ValueError", "L130"))
                        /\ UNCHANGED << dataset_train, dataset_val >>
                   ELSE \E p \in Perms(1..n) :
                          LET dataset == TrainTestSplit(dataset_train.rows, k, p)
                          IN  /\ dataset_train' = dataset.train
                              /\ dataset_val' = dataset.test
                              /\ calls' = Append(calls, Call("Dataset.train_test_split", args, TRUE))
                              /\ pc' = Succ("L126")
                              /\ UNCHANGED error
    /\ UNCHANGED << config, level, peft_config, tokenizer, quantization_config, model,
                    dataset_support, outputs, idx, printed, touched >>

(***************************************************************************)
(* Line 133: keep the first training_size rows.                            *)
(***************************************************************************)
\* Dataset.select(range(k)): the rows at positions 0..k-1.
Select(rows, k) == SubSeq(rows, 1, k)

TruncateStep ==
    /\ pc = "L133"
    /\ IF Truthy(config.training_size)
       THEN LET k == config.training_size.n
                args == [range |-> k, on |-> dataset_train]
            IN  IF k > Len(dataset_train.rows)
                THEN /\ calls' = Append(calls, Call("Dataset.select", args, FALSE))
                     /\ Fail(Exception("IndexError", "L133"))
                     /\ UNCHANGED dataset_train
                ELSE /\ dataset_train' = Dataset(Select(dataset_train.rows, k))
                     /\ calls' = Append(calls, Call("Dataset.select", args, TRUE))
                     /\ pc' = Succ("L133")
                     /\ UNCHANGED error
       ELSE /\ pc' = Succ("L133")
            /\ UNCHANGED << dataset_train, calls, error >>
    /\ UNCHANGED << config, level, peft_config, tokenizer, quantization_config, model,
                    dataset_support, dataset_val, outputs, idx, printed, log, touched >>

(***************************************************************************)
(* Lines 136-137: the first prompts, read whatever the logger's level.     *)
(***************************************************************************)
LogFirstPrompts ==
    /\ pc = "L136"
    /\ IF Len(dataset_train.rows) = 0
       THEN /\ Fail(Exception("IndexError", "L136"))
            /\ UNCHANGED log
       ELSE IF Len(dataset_val.rows) = 0
       THEN /\ Fail(Exception("IndexError", "L137"))
            /\ log' = Emit(log, "DEBUG", "First prompt for training set")
       ELSE /\ log' = Emit(Emit(log, "DEBUG", "First prompt for training set"),
                           "DEBUG", "First prompt for validation set")
            /\ pc' = Succ("L136")
            /\ UNCHANGED error
    /\ UNCHANGED << config, level, peft_config, tokenizer, quantization_config, model,
                    dataset_support, dataset_train, dataset_val, outputs, idx, printed,
                    calls, touched >>

(***************************************************************************)
(* Lines 152-155: the system-tuning proxy.                                 *)
(***************************************************************************)
\* The guard of line 152 without `peft_recipe is not None`: on a None recipe
\* the read of peft_config_obj raises AttributeError.
SystemTuningGuardNoNoneCheck(cfg) ==
    IF cfg.peft_recipe = None
    THEN [value |-> FALSE, read |-> TRUE, raised |-> TRUE]
    ELSE [value |-> (cfg.peft_recipe.peft_config_obj = PromptTuningConfig /\ cfg.system_tuning),
          read |-> TRUE, raised |-> FALSE]

\* `peft_recipe is not None and peft_recipe.peft_config_obj == PromptTuningConfig
\*  and config.system_tuning`, evaluated left to right.
SystemTuningGuard(cfg) ==
    IF cfg.peft_recipe = None
    THEN [value |-> FALSE, read |-> FALSE, raised |-> FALSE]
    ELSE [value |-> (cfg.peft_recipe.peft_config_obj = PromptTuningConfig /\ cfg.system_tuning),
          read |-> TRUE, raised |-> FALSE]

\* fit_system_template_tokens(dataset_train, model_template_recipe, tokenizer)
FitSystemTemplateTokens(ds, tok) == [kind |-> "SystemTemplate", fitted_on |-> ds]

\* SystemTuning.add_proxy(model, system_template=..., tokenizer=...)
AddProxy(m, st) == [m EXCEPT !.proxy = TRUE, !.system_template = st]

SystemTuningStep ==
    /\ pc = "L152"
    /\ LET g == SystemTuningGuard(config)
           fitArgs == [dataset_train |-> dataset_train, tokenizer |-> tokenizer]
           st == FitSystemTemplateTokens(dataset_train, tokenizer)
           fit(ok) == Call("fit_system_template_tokens", fitArgs, ok)
           proxy(ok) == Call("SystemTuning.add_proxy", [model |-> model, system_template |-> st], ok)
       IN  /\ touched' = Touch("L152", g)
           /\ IF g.raised
              THEN /\ Fail(Exception("AttributeError", "L152"))
                   /\ UNCHANGED << model, calls, log >>
              ELSE IF g.value
              THEN \/ /\ model' = AddProxy(model, st)
                      /\ calls' = calls \o << fit(TRUE), proxy(TRUE) >>
                      /\ log' = Emit(log, "DEBUG", "Added system tuning modification as requested")
                      /\ pc' = Succ("L152")
                      /\ UNCHANGED error
                   \/ /\ calls' = Append(calls, fit(FALSE))
                      /\ Fail(Exception("Exception", "L153"))
                      /\ UNCHANGED << model, log >>
                   \/ /\ calls' = calls \o << fit(TRUE), proxy(FALSE) >>
                      /\ Fail(Exception("Exception", "L154"))
                      /\ UNCHANGED << model, log >>
              ELSE /\ pc' = Succ("L152")
                   /\ UNCHANGED << model, calls, log, error >>
    /\ UNCHANGED << config, level, peft_config, tokenizer, quantization_config,
                    dataset_support, dataset_train, dataset_val, outputs, idx, printed >>

(***************************************************************************)
(* Lines 159-169: the generation sanity-check.                             *)
(***************************************************************************)
TestPrompt == "[INST] This is a test, answer with a fun fact about life: [/INST]"

GenerationConfig(tok) ==
    [max_new_tokens |-> 100, num_return_sequences |-> 4, temperature |-> "0.6",
     top_p |-> "0.9", do_sample |-> TRUE, pad_token_id |-> tok.eos_token]

\* tokenizer.encode(text, return_tensors="pt"): a batch of one row, the
\* beginning-of-sequence token and the text's tokens.
Encode(text) == << << "<s>", text >> >>

\* What sampling may append to a row (with or without the end-of-sequence
\* token), and the samples considered for n rows: all rows alike, or rows that
\* differ from their neighbours.
Continuations == { << "fact", "</s>" >> }

Samples(n) ==
    { [i \in 1..n |-> c] : c \in Continuations }
    \cup { [i \in 1..n |-> IF i % 2 = 1 THEN << "fact" >> ELSE << "life", "fact", "</s>" >>] }

\* generate returns num_return_sequences rows per input row, each the input
\* row followed by its new tokens.
GenerateOutputs(input_ids, gc, cont) ==
    [i \in 1..(Len(input_ids) * gc.num_return_sequences) |->
        input_ids[((i - 1) \div gc.num_return_sequences) + 1] \o cont[i]]

GenerateStep ==
    /\ pc = "L159"
    /\ LET input_ids == Encode(TestPrompt)
           gc == GenerationConfig(tokenizer)
           enc == Call("tokenizer.encode", [text |-> TestPrompt], TRUE)
           gen(ok) == Call("model.generate", [on |-> model, input_ids |-> input_ids,
                                              generation_config |-> gc], ok)
           n == Len(input_ids) * gc.num_return_sequences
       IN  \/ \E cont \in Samples(n) :
                /\ outputs' = GenerateOutputs(input_ids, gc, cont)
                /\ calls' = calls \o << enc, gen(TRUE) >>
                /\ pc' = IF n = 0 THEN Succ("L170") ELSE Succ("L159")
                /\ UNCHANGED error
           \/ /\ calls' = calls \o << enc, gen(FALSE) >>
              /\ Fail(Exception("Exception", "L159"))
              /\ UNCHANGED outputs
    /\ UNCHANGED << config, level, peft_config, tokenizer, quantization_config, model,
                    dataset_support, dataset_train, dataset_val, idx, printed, log, touched >>

(***************************************************************************)
(* Lines 170-172: decode and print each output.                            *)
(***************************************************************************)
SpecialTokens == { "<s>", "</s>" }

\* tokenizer.decode(output, skip_special_tokens=True)
Decode(output) == SelectSeq(output, LAMBDA t : t \notin SpecialTokens)

\* A loop that decodes the first output in every iteration.
LoopItemFirst(outs, i) == outs[1]

\* The output the loop's iteration takes, idx iterations done.
LoopItem(outs, i) == outs[i + 1]

PrintStep ==
    /\ pc = "L170"
    /\ idx < Len(outputs)
    /\ LET output == LoopItem(outputs, idx)
           generated_texts == Decode(output)
       IN  /\ printed' = Append(printed, << "\n###########\n", generated_texts >>)
           /\ calls' = calls \o << Call("tokenizer.decode", [output |-> idx + 1], TRUE),
                                   Call("print", [output |-> idx + 1], TRUE) >>
    /\ idx' = idx + 1
    /\ pc' = IF idx + 1 = Len(outputs) THEN Succ("L170") ELSE "L170"
    /\ UNCHANGED << config, level, peft_config, tokenizer, quantization_config, model,
                    dataset_support, dataset_train, dataset_val, outputs, log, touched, error >>

Next ==
    \/ ParseConfig
    \/ PeftConfigStep
    \/ MostCommonInit
    \/ TokenizerStep
    \/ QuantizationStep
    \/ ModelStep
    \/ TrainDatasetStep
    \/ ValidationDatasetStep
    \/ FallbackSplitStep
    \/ TruncateStep
    \/ LogFirstPrompts
    \/ SystemTuningStep
    \/ GenerateStep
    \/ PrintStep

Spec == Init /\ [][Next]_vars

(***************************************************************************)
(* Reading the call log                                                    *)
(***************************************************************************)
CallIdx(fn) == { i \in DOMAIN calls : calls[i].fn = fn }

Called(fn) == CallIdx(fn) # {}

Returned(fn) == \E i \in CallIdx(fn) : calls[i].ok

DatasetCalls(split) ==
    { i \in CallIdx("DatasetDispatcher.get_support_and_tuning_dataset") : calls[i].args.split = split }

\* The validation dataset call of line 116 raised.
ValidationRaised == \E i \in DatasetCalls("validation") : ~calls[i].ok

ValidationReturned == \E i \in DatasetCalls("validation") : calls[i].ok

SeqRange(q) == { q[i] : i \in DOMAIN q }

\* The three conditions of line 152, read off the configuration.
WantsSystemTuning ==
    /\ config.peft_recipe # None
    /\ config.peft_recipe.peft_config_obj = PromptTuningConfig
    /\ config.system_tuning

\* Statements after the model has been built, and after the system-tuning block.
AfterModel == { "L107", "L116", "L126", "L133", "L136", "L152", "L159", "L170", "done" }

AfterSystemTuning == { "L159", "L170", "done" }

(***************************************************************************)
(* C1                                                                      *)
(***************************************************************************)
\* C1: whenever model.generate has been called, a fine-tuning run
\* (FineTuner / Trainer .train on the built model with the train and
\* validation datasets) was launched earlier in the same run.
C1_TrainingPrecedesGenerate ==
    \A j \in CallIdx("model.generate") :
        \E i \in 1..(j - 1) : calls[i].fn \in { "FineTuner", "FineTuner.train", "Trainer.train" }

(***************************************************************************)
(* C2                                                                      *)
(***************************************************************************)
Dispatchers ==
    { "PeftDispatcher.get_peft_config", "DatasetDispatcher.get_tuning_dataset",
      "TokenizerDispatcher.get_tokenizer", "QuantizationDispatcher.get_quantization_config",
      "ModelDispatcher.get_model", "DatasetDispatcher.get_support_and_tuning_dataset" }

\* The configuration is parsed before any dispatcher is called.
C2_ParseFirst ==
    \A j \in DOMAIN calls :
        calls[j].fn \in Dispatchers =>
            /\ j > 1
            /\ calls[1] = Call("get_config_from_argparser", [cls |-> "ConfigTrain"], TRUE)
            /\ config # Unbound

\* The PEFT config, the tokenizer and the quantization config are obtained
\* before get_model is called.
C2_ConfigsBeforeModel ==
    \A j \in CallIdx("ModelDispatcher.get_model") :
        /\ peft_config # Unbound /\ tokenizer # Unbound /\ quantization_config # Unbound
        /\ \E i \in 1..(j - 1) : calls[i].fn = "TokenizerDispatcher.get_tokenizer" /\ calls[i].ok
        /\ config.peft_recipe # None =>
              \E i \in 1..(j - 1) : calls[i].fn = "PeftDispatcher.get_peft_config" /\ calls[i].ok
        /\ config.quantization_recipe # None =>
              \E i \in 1..(j - 1) : calls[i].fn = "QuantizationDispatcher.get_quantization_config"
                                     /\ calls[i].ok

\* The train dataset is built before the validation dataset.
C2_TrainBeforeValidation ==
    \A j \in DatasetCalls("validation") :
        \E i \in DatasetCalls("train") : i < j /\ calls[i].ok

\* generate is called only once config, tokenizer, model and both datasets exist.
C2_GenerateLast ==
    Called("model.generate") =>
        /\ config # Unbound /\ tokenizer # Unbound /\ model # Unbound
        /\ dataset_train # Unbound /\ dataset_val # Unbound
        /\ Returned("ModelDispatcher.get_model")
        /\ \E i \in DatasetCalls("train") : calls[i].ok

\* No step is executed twice: no call is made twice with the same arguments.
C2_NoStepTwice ==
    \A i, j \in DOMAIN calls :
        (i < j /\ calls[i].fn = calls[j].fn) => calls[i].args # calls[j].args

C2_Order ==
    /\ C2_ParseFirst
    /\ C2_ConfigsBeforeModel
    /\ C2_TrainBeforeValidation
    /\ C2_GenerateLast
    /\ C2_NoStepTwice

\* C2 as stated: the steps run in the fixed order, none twice, and no call is
\* made after a call that raised.
C2_Original ==
    /\ C2_Order
    /\ \A i, j \in DOMAIN calls : i < j => calls[i].ok

\* C2 (amended): the steps run in the fixed order, none twice, and no call is
\* made after a call that raised, except after the validation dataset call:
\* its exception is caught, and when validation_split_size is not None the run
\* goes on with train_test_split and the later steps. Any other raise is the
\* run's last call and leaves the run failed.
C2_FixedOrder ==
    /\ C2_Order
    /\ \A i \in { k \in DOMAIN calls : ~calls[k].ok } :
             IF calls[i].fn = "DatasetDispatcher.get_support_and_tuning_dataset"
                /\ calls[i].args.split = "validation"
             THEN i < Len(calls) =>
                     /\ config.validation_split_size # None
                     /\ calls[i + 1].fn = "Dataset.train_test_split"
             ELSE i = Len(calls) /\ pc = "failed"

\* A run in which the validation dataset call raised has called generate.
C2_Witness ==
    /\ ValidationRaised
    /\ Returned("model.generate")
    /\ pc = "done"

(***************************************************************************)
(* C3                                                                      *)
(***************************************************************************)
\* C3: each optional config is None exactly when its recipe is None; no PEFT
\* or quantization dispatcher is built on a None recipe; and every run that
\* gets past line 87 has called get_model once, whatever the recipes, with
\* the two configs (None for an absent one) as arguments.
C3_OptionalRecipes ==
    /\ peft_config # Unbound => (peft_config = None <=> config.peft_recipe = None)
    /\ quantization_config # Unbound =>
          (quantization_config = None <=> config.quantization_recipe = None)
    /\ \A i \in DOMAIN calls :
          calls[i].fn \in { "PeftDispatcher.get_peft_config",
                            "QuantizationDispatcher.get_quantization_config" }
             => calls[i].args.recipe # None
    /\ (pc \in {"L65", "L80", "L85", "L87"} \cup AfterModel /\ config.peft_recipe # None)
          => Returned("PeftDispatcher.get_peft_config")
    /\ (pc \in {"L87"} \cup AfterModel /\ config.quantization_recipe # None)
          => Returned("QuantizationDispatcher.get_quantization_config")
    /\ Cardinality(CallIdx("ModelDispatcher.get_model")) <= 1
    /\ pc \in AfterModel => Returned("ModelDispatcher.get_model")
    /\ (pc = "failed" /\ error.at \notin {"L23", "L63", "L65", "L66", "L80", "L85"})
          => Called("ModelDispatcher.get_model")
    /\ \A i \in CallIdx("ModelDispatcher.get_model") :
          /\ calls[i].args.quantization_config = quantization_config
          /\ calls[i].args.peft_config = peft_config
          /\ config.peft_recipe = None => calls[i].args.peft_config = None
          /\ config.quantization_recipe = None => calls[i].args.quantization_config = None

\* get_model has returned in a run with neither recipe ...
C3_WitnessNone ==
    /\ Returned("ModelDispatcher.get_model")
    /\ config.peft_recipe = None /\ config.quantization_recipe = None
    /\ peft_config = None /\ quantization_config = None

\* ... and in a run with both.
C3_Witness ==
    /\ Returned("ModelDispatcher.get_model")
    /\ config.peft_recipe # None /\ config.quantization_recipe # None
    /\ peft_config.kind = "PeftConfig" /\ quantization_config.kind = "QuantizationConfig"

(***************************************************************************)
(* C4                                                                      *)
(***************************************************************************)
PrintCalls == SelectSeq(calls, LAMBDA c : c.fn = "print")

DecodeCalls == SelectSeq(calls, LAMBDA c : c.fn = "tokenizer.decode")

\* C4: generate is called at most once, on the test prompt, asking for 4
\* sequences of at most 100 new tokens with sampling; nothing is printed
\* before it returns; the k-th text printed is the decoding of the k-th
\* sequence returned; and a completed run has printed one text per sequence
\* returned, 4 in all.
C4_GenerateAndPrint ==
    /\ Cardinality(CallIdx("model.generate")) <= 1
    /\ \A j \in CallIdx("model.generate") :
          /\ j > 1 /\ calls[j - 1].fn = "tokenizer.encode"
          /\ calls[j - 1].args.text = "[INST] This is a test, answer with a fun fact about life: [/INST]"
          /\ calls[j].args.input_ids = << << "<s>", calls[j - 1].args.text >> >>
          /\ calls[j].args.generation_config.num_return_sequences = 4
          /\ calls[j].args.generation_config.max_new_tokens = 100
          /\ calls[j].args.generation_config.do_sample
          /\ \A i \in CallIdx("print") \cup CallIdx("tokenizer.decode") : j < i
    /\ ~Returned("model.generate") => (printed = << >> /\ outputs = << >>)
    /\ Returned("model.generate") => Len(outputs) = 4
    /\ Len(printed) <= Len(outputs)
    /\ \A k \in DOMAIN printed :
          /\ printed[k][1] = "\n###########\n"
          /\ printed[k][2] = SelectSeq(outputs[k], LAMBDA t : t \notin {"<s>", "</s>"})
    /\ Len(PrintCalls) = Len(printed) /\ Len(DecodeCalls) = Len(printed)
    /\ \A k \in DOMAIN PrintCalls :
          PrintCalls[k].args.output = k /\ DecodeCalls[k].args.output = k
    /\ pc = "done" => (Len(printed) = Len(outputs) /\ Len(printed) = 4)

\* A completed run whose four sequences differ from their neighbours.
C4_Witness ==
    /\ pc = "done"
    /\ Len(printed) = 4
    /\ printed[1] # printed[2]
    /\ outputs[1] # outputs[2]

(***************************************************************************)
(* C5                                                                      *)
(***************************************************************************)
\* C5: when the validation dataset call raised and validation_split_size is
\* None, the run is at the assertion or has failed on it; the train dataset
\* is not split, dataset_val is not assigned, no proxy is added, generate is
\* not called and nothing is printed.
C5_AssertionStops ==
    (ValidationRaised /\ config.validation_split_size = None) =>
        /\ pc \in {"L126", "failed"}
        /\ pc = "failed" => error = Exception("AssertionError", "L126")
        /\ ~Called("Dataset.train_test_split")
        /\ dataset_train = Dataset(Rows("train", Len(dataset_train.rows)))
        /\ dataset_val = Unbound
        /\ ~model.proxy
        /\ ~Called("fit_system_template_tokens") /\ ~Called("SystemTuning.add_proxy")
        /\ ~Called("model.generate")
        /\ printed = << >> /\ outputs = << >>
        /\ \A k \in DOMAIN log : log[k].level = "DEBUG"

\* The assertion has failed on a train dataset that could have been split.
C5_Witness ==
    /\ ValidationRaised
    /\ config.validation_split_size = None
    /\ pc = "failed"
    /\ error.type = "AssertionError"
    /\ Len(dataset_train.rows) >= 2

(***************************************************************************)
(* C6                                                                      *)
(***************************************************************************)
WarningLogged == \E k \in DOMAIN log : log[k].level = "WARNING"

InfoLogged == \E k \in DOMAIN log : log[k].level = "INFO"

\* The rows of the train dataset as get_support_and_tuning_dataset returned it.
FullTrainRows(n) == { [split |-> "train", i |-> i] : i \in 1..n }

C7_ValidationSuccess ==
    ValidationReturned =>
        /\ ~ValidationRaised
        /\ ~Called("Dataset.train_test_split")
        /\ ~InfoLogged /\ ~WarningLogged
        /\ pc = "L133" =>
              /\ dataset_train = Dataset(Rows("train", Len(dataset_train.rows)))
              /\ dataset_val = Dataset(Rows("validation", Len(dataset_val.rows)))
        /\ \A j \in DatasetCalls("validation") :
              /\ dataset_support.kind = "Dataset"
              /\ calls[j].args.dataset_support = dataset_support
              /\ calls[j].args.num_examples = "default"
              /\ \A i \in DatasetCalls("train") :
                    /\ i < j
                    /\ calls[i].args.num_examples = "config.num_examples"
                    /\ calls[i].args.dataset_support = None
                    /\ calls[j].args.postprocess_function = calls[i].args.postprocess_function
                    /\ calls[j].args.eos_token = calls[i].args.eos_token
                    /\ calls[j].args.eos_token = tokenizer.eos_token
                    /\ calls[j].args.num_proc = calls[i].args.num_proc
                    /\ calls[j].args.dynamic_examples = calls[i].args.dynamic_examples
                    /\ calls[j].args.dynamic_examples = config.dynamic_examples
                    /\ calls[j].args.include_labels_inside_text
                    /\ calls[i].args.include_labels_inside_text

\* The try statement has just been left normally, in a run that had bound
\* dataset_train to the text-only dataset of line 66 before.
C7_Witness ==
    /\ ValidationReturned
    /\ pc = "L133"
    /\ Called("DatasetDispatcher.get_tuning_dataset")
    /\ Len(dataset_train.rows) = 2
    /\ Len(dataset_val.rows) >= 1
    /\ config.dynamic_examples

(***************************************************************************)
(* C8                                                                      *)
(***************************************************************************)
\* C8: the system template is fitted and the proxy added only when peft_recipe
\* is not None, its peft_config_obj is PromptTuningConfig and system_tuning is
\* true, and past line 155 the model is proxied exactly then. In that case
\* the template was fitted on dataset_train as it is after the fallback split
\* and the truncation, and generate is called on the proxy of the model
\* get_model returned; otherwise generate is called on the model get_model
\* returned. peft_config_obj is never read on a None peft_recipe.
C8_SystemTuning ==
    /\ \A t \in touched : ~t.on_none
    /\ \A t \in touched : config.peft_recipe # None
    /\ ~(pc = "failed" /\ error.type = "AttributeError")
    /\ (Called("fit_system_template_tokens") \/ Called("SystemTuning.add_proxy"))
          => WantsSystemTuning
    /\ Cardinality(CallIdx("fit_system_template_tokens")) <= 1
    /\ Cardinality(CallIdx("SystemTuning.add_proxy")) <= 1
    /\ \A i \in CallIdx("fit_system_template_tokens") :
          /\ calls[i].args.dataset_train = dataset_train
          /\ Truthy(config.training_size) =>
                Len(calls[i].args.dataset_train.rows) = config.training_size.n
          /\ ValidationRaised =>
                \E j \in CallIdx("Dataset.train_test_split") : j < i /\ calls[j].ok
    /\ pc \in AfterSystemTuning =>
          /\ model.proxy <=> WantsSystemTuning
          /\ model.proxy <=> Returned("SystemTuning.add_proxy")
    /\ \A j \in CallIdx("model.generate") :
          LET m == calls[j].args.on
          IN  /\ m = model
              /\ m.proxy <=> WantsSystemTuning
              /\ m.peft_config = peft_config
              /\ m.quantization_config = quantization_config
              /\ \A i \in CallIdx("ModelDispatcher.get_model") :
                    /\ m.peft_config = calls[i].args.peft_config
                    /\ m.quantization_config = calls[i].args.quantization_config
              /\ IF WantsSystemTuning
                 THEN /\ m.system_template.kind = "SystemTemplate"
                      /\ m.system_template.fitted_on = dataset_train
                      /\ \E i \in CallIdx("SystemTuning.add_proxy") :
                            /\ i < j /\ calls[i].ok
                            /\ ~calls[i].args.model.proxy
                            /\ calls[i].args.system_template = m.system_template
                 ELSE /\ m.system_template = None
                      /\ ~Called("fit_system_template_tokens")
                      /\ ~Called("SystemTuning.add_proxy")

\* generate has returned on a proxied model whose template was fitted on a
\* split and truncated train dataset ...
C8_Witness ==
    /\ Returned("model.generate")
    /\ model.proxy
    /\ ValidationRaised
    /\ Truthy(config.training_size)
    /\ model.system_template.fitted_on = dataset_train

\* ... and on an unproxied model, in a run without PEFT recipe that asked for
\* system tuning.
C8_WitnessNone ==
    /\ Returned("model.generate")
    /\ config.peft_recipe = None
    /\ config.system_tuning
    /\ ~model.proxy

====
